---- MODULE Spec2Model ----
(***************************************************************************)
(* Model of generate.py: extract_cover (cover extraction and the artwork   *)
(* cache under <target>/covers) and the record-building loop of main.      *)
(*                                                                         *)
(* Strings that the program only compares or concatenates are kept as      *)
(* values: a path is the tuple of its components, a MIME string is the     *)
(* tuple of its characters, image bytes are tuples of byte names.          *)
(* An optional value (Python None or a value) is <<>> or <<value>>.        *)
(***************************************************************************)
EXTENDS Integers, Sequences, FiniteSets, TLC

VARIABLES
    HAS_MUTAGEN,    \* the import at lines 17-24 succeeded
    disk,           \* content of each audio file of the target folder
    coversDir,      \* <target>/covers exists
    covers,         \* files of <target>/covers: cover file name -> bytes
    pc,             \* position of main: "idle", "loop", "done", "aborted"
    files,          \* main's sorted file list
    idx,            \* number of files the loop of line 127 has taken
    playlist_data,  \* main's records built so far
    runs,           \* number of runs that reached the scan of line 117
    edits,          \* number of in-place edits of audio files
    runDisk,        \* history: disk as the current run saw it
    coversAtStart,  \* history: covers when the current run started
    coversBefore,   \* history: covers before the last extract_cover call
    last,           \* history: the last extract_cover call of the run
    faults,         \* history: the I/O failures the current run met
    prev,           \* history: the previous completed run
    wpc,            \* concurrent workers: position of each worker
    wpos,           \* concurrent workers: file offset of each worker's handle
    wn,             \* concurrent workers: bytes each worker has written
    wret            \* concurrent workers: value returned by each worker

vars == <<HAS_MUTAGEN, disk, coversDir, covers, pc, files, idx, playlist_data,
          runs, edits, runDisk, coversAtStart, coversBefore, last, faults,
          prev, wpc, wpos, wn, wret>>

seqVars == <<pc, files, idx, playlist_data, runs, edits, runDisk, coversAtStart,
             coversBefore, last, faults, prev>>

concVars == <<wpc, wpos, wn, wret>>

(***************************************************************************)
(* Bounds of the model.                                                    *)
(***************************************************************************)
MaxRuns == 2

MaxEdits == 1

(***************************************************************************)
(* Values.                                                                 *)
(***************************************************************************)
None == <<>>

Some(v) == <<v>>

COVERS_DIR == "covers"

TargetDir == "music"

JPG == ".jpg"

PNG == ".png"

\* the characters of "png", the needle of line 58
PngWord == <<"p", "n", "g">>

MimeJpeg == <<"i", "m", "a", "g", "e", "/", "j", "p", "e", "g">>

MimePng == <<"i", "m", "a", "g", "e", "/", "p", "n", "g">>

MimeXPng == <<"i", "m", "a", "g", "e", "/", "x", "-", "p", "n", "g">>

MimeUpperPng == <<"P", "N", "G">>

MimeEmpty == <<>>

\* the 4 bytes that begin every PNG image
PngMagic == <<"89", "P", "N", "G">>

PngBytes == <<"89", "P", "N", "G">>

JpgBytes == <<"FF", "D8">>

NoBytes == <<>>

StartsWith(s, p) == Len(s) >= Len(p) /\ SubSeq(s, 1, Len(p)) = p

(***************************************************************************)
(* What mutagen finds in a file: kind "corrupt" makes File raise, "unknown" *)
(* makes it return None, "id3" gives ID3 tags (frames in file order),       *)
(* "mp4" gives MP4 tags (covr: the list under key 'covr' when hasCovr),     *)
(* "ogg" gives tags of another type.                                        *)
(***************************************************************************)
Frame(id, mime, data) == [id |-> id, mime |-> mime, data |-> data]

Apic(mime, data) == Frame("APIC", mime, data)

Tit2 == Frame("TIT2", MimeEmpty, NoBytes)

Content(kind, frames, hasCovr, covr) ==
    [kind |-> kind, frames |-> frames, hasCovr |-> hasCovr, covr |-> covr]

Id3(frames) == Content("id3", frames, FALSE, <<>>)

Mp4(hasCovr, covr) == Content("mp4", <<>>, hasCovr, covr)

Corrupt == Content("corrupt", <<>>, FALSE, <<>>)

Unknown == Content("unknown", <<>>, FALSE, <<>>)

Ogg == Content("ogg", <<>>, FALSE, <<>>)

Id3Contents ==
    { Id3(<<Tit2, Apic(MimeJpeg, JpgBytes)>>),
      Id3(<<Apic(MimePng, PngBytes)>>),
      Id3(<<Apic(MimeXPng, PngBytes)>>),
      Id3(<<Apic(MimeUpperPng, PngBytes)>>),
      Id3(<<Apic(MimeEmpty, JpgBytes)>>),
      Id3(<<Apic(MimeJpeg, NoBytes)>>),
      Id3(<<Apic(MimePng, PngBytes), Apic(MimeJpeg, JpgBytes)>>),
      Id3(<<Tit2>>) }

Mp4Contents ==
    { Mp4(TRUE, <<PngBytes>>),
      Mp4(TRUE, <<JpgBytes, PngBytes>>),
      Mp4(TRUE, <<>>),
      Mp4(FALSE, <<>>) }

Contents == Id3Contents \cup Mp4Contents \cup {Corrupt, Unknown, Ogg}

\* a second JPEG image, for a file whose artwork is replaced in place
Jpg2Bytes == <<"FF", "D9">>

\* the contents the files take in the runs with in-place edits: artwork, the
\* artwork replaced by another image of the same kind, the artwork removed
RunContents ==
    { Id3(<<Apic(MimeJpeg, JpgBytes)>>),
      Id3(<<Apic(MimeJpeg, Jpg2Bytes)>>),
      Id3(<<Tit2>>) }

(***************************************************************************)
(* The target folder: its entries, the filter of line 117, the order of    *)
(* line 118.                                                               *)
(***************************************************************************)
DirEntries == {"a.mp3", "b.m4a", "notes.txt", ".c.mp3"}

\* f.lower().endswith(supported_extensions)
HasSupportedExtension(f) == f \in {"a.mp3", "b.m4a", ".c.mp3"}

\* f.startswith('.')
StartsWithDot(f) == f = ".c.mp3"

\* Python's order of the entries' strings
Rank(f) ==
    CASE f = ".c.mp3" -> 1
      [] f = "a.mp3" -> 2
      [] f = "b.m4a" -> 3
      [] f = "notes.txt" -> 4

AudioNames == {f \in DirEntries : HasSupportedExtension(f) /\ ~StartsWithDot(f)}

Listings == {s \in [1..Cardinality(DirEntries) -> DirEntries] :
                \A i, j \in DOMAIN s : i # j => s[i] # s[j]}

RECURSIVE Filter(_)
Filter(s) ==
    IF s = <<>> THEN <<>>
    ELSE IF HasSupportedExtension(Head(s)) /\ ~StartsWithDot(Head(s))
         THEN <<Head(s)>> \o Filter(Tail(s))
         ELSE Filter(Tail(s))

RECURSIVE Insert(_, _)
Insert(f, s) ==
    IF s = <<>> THEN <<f>>
    ELSE IF Rank(f) <= Rank(Head(s)) THEN <<f>> \o s
         ELSE <<Head(s)>> \o Insert(f, Tail(s))

RECURSIVE Sort(_)
Sort(s) == IF s = <<>> THEN <<>> ELSE Insert(Head(s), Sort(Tail(s)))

\* os.path.join(target_dir, f)
FullPath(f) == <<TargetDir, f>>

\* hashlib.md5(s.encode('utf-8')).hexdigest(): a digest that is a function of
\* the string alone, distinct strings giving distinct digests
Md5(s) == [md5 |-> s]

(***************************************************************************)
(* extract_cover, lines 29-79.                                             *)
(***************************************************************************)
\* What the environment does to one call: whether the source file can be read
\* and how the write of lines 70-71 ends. "open_fail": open raises and creates
\* nothing; "partial": the file is created, n bytes reach it, then write or
\* close raises.
MaxPartial == Len(PngBytes) - 1

WriteOutcomes ==
    {[kind |-> "ok", n |-> 0], [kind |-> "open_fail", n |-> 0]}
        \cup {[kind |-> "partial", n |-> k] : k \in 0..MaxPartial}

\* a call whose read fails never reaches its write
Envs ==
    {[read_ok |-> FALSE, write |-> [kind |-> "ok", n |-> 0]]}
        \cup [read_ok : {TRUE}, write : WriteOutcomes]

Min(a, b) == IF a <= b THEN a ELSE b

\* the outcome as it applies to a write of data: fewer bytes than all of them
Effective(w, data) ==
    IF w.kind = "partial" THEN [w EXCEPT !.n = Min(w.n, Len(data) - 1)] ELSE w

\* line 38: File(file_path)
File(content, env) ==
    IF ~env.read_ok \/ content.kind = "corrupt"
    THEN [raised |-> TRUE, audio |-> None]
    ELSE IF content.kind = "unknown"
         THEN [raised |-> FALSE, audio |-> None]
         ELSE [raised |-> FALSE, audio |-> Some(content)]

\* 'png' in tag.mime
Contains(s, w) ==
    \E i \in 1..(Len(s) - Len(w) + 1) : SubSeq(s, i, i + Len(w) - 1) = w

\* lines 58-59, with the faulty variant that compares the whole MIME string
MimeExtExact(mime) == IF mime = MimePng THEN PNG ELSE JPG

MimeExt(mime) == IF Contains(mime, PngWord) THEN PNG ELSE JPG

\* lines 55-60: the first APIC frame in file order
RECURSIVE FirstApic(_)
FirstApic(frames) ==
    IF frames = <<>> THEN [raised |-> FALSE, image_data |-> None, ext |-> ""]
    ELSE IF Head(frames).id = "APIC"
         THEN [raised |-> FALSE, image_data |-> Some(Head(frames).data),
               ext |-> MimeExt(Head(frames).mime)]
         ELSE FirstApic(Tail(frames))

\* lines 44-60: image_data and ext
SelectImage(audio) ==
    IF audio.kind = "mp4" /\ audio.hasCovr
    THEN IF audio.covr = <<>>
         THEN [raised |-> TRUE, image_data |-> None, ext |-> ""]
         ELSE [raised |-> FALSE, image_data |-> Some(audio.covr[1]), ext |-> JPG]
    ELSE IF audio.kind = "id3"
         THEN FirstApic(audio.frames)
         ELSE [raised |-> FALSE, image_data |-> None, ext |-> ""]

\* line 64: if image_data
Truthy(image_data) == image_data # None /\ image_data[1] # <<>>

\* line 65: f"{file_hash}{ext}"
CoverFilename(file_hash, ext) == [hash |-> file_hash, ext |-> ext]

\* line 74: f"{COVERS_DIR}/{cover_filename}"
Ref(cover_filename) == [dir |-> COVERS_DIR, file |-> cover_filename]

\* os.path.exists(cover_path)
Exists(dir, name) == name \in DOMAIN dir

\* the directory with file name holding data
Put(dir, name, data) ==
    [n \in DOMAIN dir \cup {name} |-> IF n = name THEN data ELSE dir[n]]

\* a write that loses the first byte of the image
WriteFileTail(dir, name, data, w) ==
    CASE w.kind = "ok" -> Put(dir, name, Tail(data))
      [] w.kind = "open_fail" -> dir
      [] w.kind = "partial" -> Put(dir, name, SubSeq(data, 1, w.n))

\* lines 70-71: open(cover_path, 'wb') and f.write(image_data) under w
WriteFile(dir, name, data, w) ==
    CASE w.kind = "ok" -> Put(dir, name, data)
      [] w.kind = "open_fail" -> dir
      [] w.kind = "partial" -> Put(dir, name, SubSeq(data, 1, w.n))

Result(ret, dir, raised, resolved, write) ==
    [ret |-> ret, covers |-> dir, raised |-> raised, resolved |-> resolved,
     write |-> write]

\* lines 64-74, with the faulty variant that writes whether or not the file exists
StoreAlways(file_hash, sel, dir, env) ==
    LET cover_filename == CoverFilename(file_hash, sel.ext)
        data == sel.image_data[1]
        w == Effective(env.write, data)
    IN  Result(IF w.kind = "ok" THEN Some(Ref(cover_filename)) ELSE None,
               WriteFile(dir, cover_filename, data, w),
               w.kind # "ok", Some(cover_filename), Some(w))

Store(file_hash, sel, dir, env) ==
    LET cover_filename == CoverFilename(file_hash, sel.ext)
        data == sel.image_data[1]
        w == Effective(env.write, data)
    IN  IF Exists(dir, cover_filename)
        THEN Result(Some(Ref(cover_filename)), dir, FALSE,
                    Some(cover_filename), None)
        ELSE Result(IF w.kind = "ok" THEN Some(Ref(cover_filename)) ELSE None,
                    WriteFile(dir, cover_filename, data, w),
                    w.kind # "ok", Some(cover_filename), Some(w))

\* lines 38-74 with the digest taken of key: the body of the try block
BodyWithKey(key, sel, audio, dir, env) ==
    IF audio.raised THEN Result(None, dir, TRUE, None, None)
    ELSE IF audio.audio = None THEN Result(None, dir, FALSE, None, None)
    ELSE IF sel.raised THEN Result(None, dir, TRUE, None, None)
    ELSE IF Truthy(sel.image_data) THEN Store(Md5(key), sel, dir, env)
    ELSE Result(None, dir, FALSE, None, None)

\* the faulty variant of the body that digests the image instead of the path
BodyContentKeyed(file_path, content, dir, env) ==
    LET audio == File(content, env)
        sel == IF audio.audio = None
               THEN [raised |-> FALSE, image_data |-> None, ext |-> ""]
               ELSE SelectImage(audio.audio[1])
    IN  BodyWithKey(IF sel.image_data = None THEN file_path ELSE sel.image_data[1],
                    sel, audio, dir, env)

\* lines 38-74: the body of the try block
Body(file_path, content, dir, env) ==
    LET audio == File(content, env)
        sel == IF audio.audio = None
               THEN [raised |-> FALSE, image_data |-> None, ext |-> ""]
               ELSE SelectImage(audio.audio[1])
    IN  BodyWithKey(file_path, sel, audio, dir, env)

\* a body without its except clause: the exception leaves extract_cover
Uncaught(r) == r

\* lines 37 and 76-79: except Exception, then return None
TryExcept(r) == IF r.raised THEN [r EXCEPT !.ret = None, !.raised = FALSE] ELSE r

\* lines 29-79
extract_cover(has_mutagen, file_path, content, dir, env) ==
    IF ~has_mutagen THEN Result(None, dir, FALSE, None, None)
    ELSE TryExcept(Body(file_path, content, dir, env))

(***************************************************************************)
(* main, lines 81-137, and the folder's owner editing a file between runs. *)
(***************************************************************************)
NoWorkers == [w \in {} |-> 0]

\* lines 133-137: the record of file f
Record(f, cover) == [name |-> f, url |-> f, cover |-> cover]

\* a record list that grows at the wrong end
PrependRecord(data, rec) == <<rec>> \o data

\* line 133: playlist_data.append
AppendRecord(data, rec) == Append(data, rec)

RunSummary ==
    [files |-> files, disk |-> runDisk, records |-> playlist_data,
     covers |-> covers, faults |-> faults]

InitWith(pool) ==
    /\ HAS_MUTAGEN \in BOOLEAN
    /\ disk \in [AudioNames -> pool]
    /\ coversDir = FALSE
    /\ covers = <<>>
    /\ pc = "idle"
    /\ files = <<>>
    /\ idx = 0
    /\ playlist_data = <<>>
    /\ runs = 0
    /\ edits = 0
    /\ runDisk = disk
    /\ coversAtStart = <<>>
    /\ coversBefore = <<>>
    /\ last = None
    /\ faults = {}
    /\ prev = None
    /\ wpc = NoWorkers
    /\ wpos = NoWorkers
    /\ wn = NoWorkers
    /\ wret = NoWorkers

Init == InitWith(RunContents)

\* lines 110-126: main from the creation of the covers folder up to the loop.
\* made: os.makedirs succeeds (line 113); when it raises, main ends there.
StartRun ==
    /\ pc # "loop"
    /\ runs < MaxRuns
    /\ \E made \in BOOLEAN, listing \in Listings :
         LET create == HAS_MUTAGEN /\ ~coversDir
         IN  IF create /\ ~made
             THEN /\ pc' = "aborted"
                  /\ UNCHANGED <<coversDir, files, idx, playlist_data, runs,
                                 runDisk, coversAtStart, coversBefore, last,
                                 faults, prev>>
             ELSE /\ runs' = runs + 1
                  /\ coversDir' = (coversDir \/ create)
                  /\ files' = Sort(Filter(listing))
                  /\ idx' = 0
                  /\ playlist_data' = <<>>
                  /\ pc' = "loop"
                  /\ runDisk' = disk
                  /\ coversAtStart' = covers
                  /\ coversBefore' = covers
                  /\ last' = None
                  /\ faults' = {}
                  /\ prev' = IF pc = "done" THEN Some(RunSummary) ELSE None
    /\ UNCHANGED <<HAS_MUTAGEN, disk, covers, edits, concVars>>

\* the I/O failures of one call
FaultsOf(read_failed, write) ==
    (IF read_failed THEN {"read"} ELSE {})
        \cup (IF write # None /\ write[1].kind # "ok" THEN {write[1].kind} ELSE {})

\* lines 127-137: one iteration of the loop
LoopStep ==
    /\ pc = "loop"
    /\ idx < Len(files)
    /\ \E env \in Envs :
         LET f == files[idx + 1]
             full_path == FullPath(f)
             r == extract_cover(HAS_MUTAGEN, full_path, disk[f], covers, env)
         IN  /\ covers' = r.covers
             /\ coversBefore' = covers
             /\ last' = Some([path |-> full_path, content |-> disk[f],
                              read_failed |-> HAS_MUTAGEN /\ ~env.read_ok,
                              ret |-> r.ret, resolved |-> r.resolved,
                              write |-> r.write])
             /\ faults' = faults \cup FaultsOf(HAS_MUTAGEN /\ ~env.read_ok, r.write)
             /\ idx' = idx + 1
             /\ IF r.raised
                THEN /\ pc' = "aborted"
                     /\ UNCHANGED playlist_data
                ELSE /\ playlist_data' = AppendRecord(playlist_data, Record(f, r.ret))
                     /\ UNCHANGED pc
    /\ UNCHANGED <<HAS_MUTAGEN, disk, coversDir, files, runs, edits, runDisk,
                   coversAtStart, prev, concVars>>

\* the loop of line 127 ends
Finish ==
    /\ pc = "loop"
    /\ idx = Len(files)
    /\ pc' = "done"
    /\ UNCHANGED <<HAS_MUTAGEN, disk, coversDir, covers, files, idx, playlist_data,
                   runs, edits, runDisk, coversAtStart, coversBefore, last, faults,
                   prev, concVars>>

\* between two runs, a file of the folder is rewritten in place
EditFile ==
    /\ pc # "loop"
    /\ runs >= 1
    /\ edits < MaxEdits
    /\ edits' = edits + 1
    /\ \E f \in AudioNames, c \in RunContents :
         /\ c # disk[f]
         /\ disk' = [disk EXCEPT ![f] = c]
    /\ UNCHANGED <<HAS_MUTAGEN, coversDir, covers, pc, files, idx, playlist_data,
                   runs, runDisk, coversAtStart, coversBefore, last, faults, prev,
                   concVars>>

Next == StartRun \/ LoopStep \/ Finish \/ EditFile

Spec == Init /\ [][Next]_vars

\* one folder of files of every kind, run without edits
InitCall == InitWith(Contents)

NextCall == StartRun \/ LoopStep \/ Finish

SpecCall == InitCall /\ [][NextCall]_vars

(***************************************************************************)
(* Two workers that call extract_cover on the same source file at the same *)
(* time (two runs of the script over one folder): lines 38-74 as the steps *)
(* the file system sees. The source file does not change meanwhile and no  *)
(* write fails.                                                            *)
(***************************************************************************)
Workers == {1, 2}

SharedFile == "a.mp3"

ZeroByte == "00"

OkEnv == [read_ok |-> TRUE, write |-> [kind |-> "ok", n |-> 0]]

\* lines 38-60 of a worker: what it is about to store, None when it has nothing
WorkerImage ==
    LET audio == File(disk[SharedFile], OkEnv)
    IN  IF audio.raised \/ audio.audio = None THEN None
        ELSE LET sel == SelectImage(audio.audio[1])
             IN  IF sel.raised \/ ~Truthy(sel.image_data) THEN None ELSE Some(sel)

\* line 65 of a worker
WorkerFilename ==
    CoverFilename(Md5(FullPath(SharedFile)), WorkerImage[1].ext)

\* a handle that appends: what open(cover_path, 'ab') gives
OpenAppend(old) == [content |-> old, pos |-> Len(old)]

\* line 70: open(cover_path, 'wb') truncates the file; the handle starts at 0
OpenWB(old) == [content |-> <<>>, pos |-> 0]

\* one byte b written at offset pos of a file (a gap reads as zero bytes)
WriteAt(content, pos, b) ==
    [i \in 1..(IF pos + 1 > Len(content) THEN pos + 1 ELSE Len(content)) |->
        IF i = pos + 1 THEN b
        ELSE IF i <= Len(content) THEN content[i] ELSE ZeroByte]

\* the source file's artwork already cached whole, or nothing cached
InitConc ==
    /\ HAS_MUTAGEN = TRUE
    /\ disk \in [AudioNames -> Contents]
    /\ coversDir = TRUE
    /\ covers \in {<<>>} \cup
                  (IF WorkerImage = None THEN {}
                   ELSE {Put(<<>>, WorkerFilename, WorkerImage[1].image_data[1])})
    /\ pc = "idle"
    /\ files = <<>>
    /\ idx = 0
    /\ playlist_data = <<>>
    /\ runs = 0
    /\ edits = 0
    /\ runDisk = disk
    /\ coversAtStart = covers
    /\ coversBefore = covers
    /\ last = None
    /\ faults = {}
    /\ prev = None
    /\ wpc = [w \in Workers |-> "start"]
    /\ wpos = [w \in Workers |-> 0]
    /\ wn = [w \in Workers |-> 0]
    /\ wret = [w \in Workers |-> None]

\* lines 38-66: parse, hash, select; nothing to store returns None (line 79)
WParse(w) ==
    /\ wpc[w] = "start"
    /\ IF WorkerImage = None
       THEN /\ wpc' = [wpc EXCEPT ![w] = "done"]
            /\ wret' = [wret EXCEPT ![w] = None]
       ELSE /\ wpc' = [wpc EXCEPT ![w] = "check"]
            /\ UNCHANGED wret
    /\ UNCHANGED <<HAS_MUTAGEN, disk, coversDir, covers, seqVars, wpos, wn>>

\* line 69: os.path.exists(cover_path)
WCheck(w) ==
    /\ wpc[w] = "check"
    /\ wpc' = [wpc EXCEPT ![w] = IF Exists(covers, WorkerFilename)
                                 THEN "return" ELSE "open"]
    /\ UNCHANGED <<HAS_MUTAGEN, disk, coversDir, covers, seqVars, wpos, wn, wret>>

\* line 70: open(cover_path, 'wb')
WOpen(w) ==
    /\ wpc[w] = "open"
    /\ LET h == OpenWB(IF Exists(covers, WorkerFilename)
                       THEN covers[WorkerFilename] ELSE <<>>)
       IN  /\ covers' = Put(covers, WorkerFilename, h.content)
           /\ wpos' = [wpos EXCEPT ![w] = h.pos]
    /\ wpc' = [wpc EXCEPT ![w] = "write"]
    /\ UNCHANGED <<HAS_MUTAGEN, disk, coversDir, seqVars, wn, wret>>

\* line 71: f.write(image_data), one byte reaching the file at a time
WWrite(w) ==
    /\ wpc[w] = "write"
    /\ LET data == WorkerImage[1].image_data[1]
       IN  IF wn[w] < Len(data)
           THEN /\ covers' = Put(covers, WorkerFilename,
                                 WriteAt(covers[WorkerFilename], wpos[w],
                                         data[wn[w] + 1]))
                /\ wpos' = [wpos EXCEPT ![w] = wpos[w] + 1]
                /\ wn' = [wn EXCEPT ![w] = wn[w] + 1]
                /\ UNCHANGED wpc
           ELSE /\ wpc' = [wpc EXCEPT ![w] = "return"]
                /\ UNCHANGED <<covers, wpos, wn>>
    /\ UNCHANGED <<HAS_MUTAGEN, disk, coversDir, seqVars, wret>>

\* line 74: return the reference
WReturn(w) ==
    /\ wpc[w] = "return"
    /\ wret' = [wret EXCEPT ![w] = Some(Ref(WorkerFilename))]
    /\ wpc' = [wpc EXCEPT ![w] = "done"]
    /\ UNCHANGED <<HAS_MUTAGEN, disk, coversDir, covers, seqVars, wpos, wn>>

NextConc ==
    \E w \in Workers : WParse(w) \/ WCheck(w) \/ WOpen(w) \/ WWrite(w) \/ WReturn(w)

SpecConc == InitConc /\ [][NextConc]_vars

(***************************************************************************)
(* Properties.                                                             *)
(***************************************************************************)
Kinds == {JPG, PNG}

\* the first picture frame of an ID3 file, None when it has none
PictureFrame(c) ==
    LET at == {i \in 1..Len(c.frames) :
                  /\ c.frames[i].id = "APIC"
                  /\ \A j \in 1..(i - 1) : c.frames[j].id # "APIC"}
    IN  IF c.kind = "id3" /\ at # {} THEN Some(c.frames[CHOOSE i \in at : TRUE])
        ELSE None

\* the image a file carries, None when it carries none
Artwork(c) ==
    IF c.kind = "mp4" /\ c.hasCovr /\ c.covr # <<>> /\ c.covr[1] # <<>>
    THEN Some(c.covr[1])
    ELSE IF PictureFrame(c) # None /\ PictureFrame(c)[1].data # <<>>
         THEN Some(PictureFrame(c)[1].data)
         ELSE None

\* every whole image a file of the folder can carry
WholeImages == {Artwork(c)[1] : c \in {d \in Contents \cup RunContents : Artwork(d) # None}}

\* the last call met an I/O failure
LastFaulted ==
    last[1].read_failed \/ (last[1].write # None /\ last[1].write[1].kind # "ok")

\* C1: a failure while extracting one file (unsupported format, corrupt
\* structure, no artwork, read failure, cache write failure) gives that file
\* cover = None and nothing else: the loop never stops before the end of the
\* list, every file gets its record, and a file that has artwork and met no
\* failure has its cover whatever happened to the files before it.
InvC1 ==
    /\ pc = "aborted" => idx = 0
    /\ pc = "done" => Len(playlist_data) = Len(files)
    /\ pc \in {"loop", "done"} =>
         /\ Len(playlist_data) = idx
         /\ \A i \in 1..Len(playlist_data) :
              (~HAS_MUTAGEN \/ Artwork(runDisk[files[i]]) = None)
                  => playlist_data[i].cover = None
         /\ last # None =>
              /\ playlist_data[idx].cover = last[1].ret
              /\ LastFaulted => last[1].ret = None
              /\ (HAS_MUTAGEN /\ ~LastFaulted /\ Artwork(last[1].content) # None)
                     => last[1].ret # None

WitC1 ==
    /\ pc = "done"
    /\ Len(playlist_data) = 2
    /\ runDisk[files[1]].kind = "corrupt"
    /\ playlist_data[1].cover = None
    /\ ~LastFaulted
    /\ playlist_data[2].cover # None

\* C2: the records built so far are the records of the files the loop has
\* taken, in the order of the file list, each with the name and url of its
\* file; when the loop ends there is one record per file.
InvC2 ==
    pc \in {"loop", "done"} =>
        /\ idx <= Len(files)
        /\ Len(playlist_data) = idx
        /\ \A i \in 1..Len(playlist_data) :
             playlist_data[i].name = files[i] /\ playlist_data[i].url = files[i]
        /\ pc = "done" => idx = Len(files)

WitC2 ==
    /\ pc = "done"
    /\ Len(playlist_data) = 2
    /\ playlist_data[1].name # playlist_data[2].name
    /\ playlist_data[1].cover # None
    /\ playlist_data[2].cover = None

\* C3 (as claimed), for two runs in a row over unchanged files in which every
\* file could be read and every cover file opened: the second run gives the
\* records of the first and leaves the cache as the first run left it.
CexC3 ==
    (/\ pc = "done"
     /\ prev # None
     /\ prev[1].disk = runDisk
     /\ prev[1].files = files
     /\ (prev[1].faults \cup faults) \cap {"read", "open_fail"} = {})
        => /\ playlist_data = prev[1].records
           /\ covers = prev[1].covers

\* C4: when the cover file of a call exists already, the call returns the
\* reference to it and changes nothing in the cache; and every cover file that
\* was there when a run started is there, with the same bytes, ever after.
InvC4 ==
    /\ (last # None /\ last[1].resolved # None
            /\ Exists(coversBefore, last[1].resolved[1]))
           => /\ last[1].ret = Some(Ref(last[1].resolved[1]))
              /\ covers = coversBefore
    /\ \A n \in DOMAIN coversAtStart :
           Exists(covers, n) /\ covers[n] = coversAtStart[n]

WitC4 ==
    /\ last # None
    /\ last[1].resolved # None
    /\ Exists(coversBefore, last[1].resolved[1])
    /\ coversBefore[last[1].resolved[1]] \in WholeImages
    /\ coversBefore[last[1].resolved[1]] # Artwork(last[1].content)[1]
    /\ last[1].ret = Some(Ref(last[1].resolved[1]))

\* C5: when both workers have finished, they have returned the same value,
\* and if that is a reference, the cover file it names holds exactly the
\* image of the source file, under every interleaving of their steps.
InvC5 ==
    (\A w \in Workers : wpc[w] = "done") =>
        /\ wret[1] = wret[2]
        /\ (WorkerImage = None) = (wret[1] = None)
        /\ wret[1] # None =>
             /\ Exists(covers, wret[1][1].file)
             /\ covers[wret[1][1].file] = Artwork(disk[SharedFile])[1]

\* both workers found no file, and both opened and wrote it
WitC5 ==
    /\ \A w \in Workers : wpc[w] = "done"
    /\ wret[1] # None
    /\ \A w \in Workers : wn[w] = Len(Artwork(disk[SharedFile])[1])

\* the last call read an ID3 file with a picture frame of non-empty data, with
\* the library there and no I/O failure
PictureCall ==
    /\ last # None
    /\ HAS_MUTAGEN
    /\ ~LastFaulted
    /\ PictureFrame(last[1].content) # None
    /\ PictureFrame(last[1].content)[1].data # <<>>

\* C6: from an empty cache, extracting an ID3 file whose only picture frame
\* has MIME image/jpeg and non-empty bytes B (no I/O failure) returns a
\* reference to a cover file that holds exactly B.
InvC6 ==
    (/\ PictureCall
     /\ coversBefore = <<>>
     /\ Cardinality({i \in 1..Len(last[1].content.frames) :
                        last[1].content.frames[i].id = "APIC"}) = 1
     /\ PictureFrame(last[1].content)[1].mime = MimeJpeg)
        => /\ last[1].ret # None
           /\ last[1].ret[1].dir = COVERS_DIR
           /\ Exists(covers, last[1].ret[1].file)
           /\ covers[last[1].ret[1].file] = PictureFrame(last[1].content)[1].data

WitC6 ==
    /\ PictureCall
    /\ coversBefore = <<>>
    /\ last[1].content = Id3(<<Tit2, Apic(MimeJpeg, JpgBytes)>>)
    /\ last[1].ret # None
    /\ covers[last[1].ret[1].file] = JpgBytes

\* C7 (as claimed): the extension of the cover file of an MP4 file is .png when
\* the first payload of its cover atom begins with the PNG magic bytes, and
\* .jpg otherwise.
CexC7 ==
    (last # None /\ last[1].content.kind = "mp4" /\ last[1].ret # None)
        => last[1].ret[1].file.ext =
               (IF StartsWith(last[1].content.covr[1], PngMagic) THEN PNG ELSE JPG)

\* C8 (as claimed): for an ID3 picture frame the cover file is .png exactly
\* when the declared MIME string is image/png, .jpg otherwise, and no MIME
\* string makes the extraction fail.
CexC8 ==
    PictureCall =>
        /\ last[1].ret # None
        /\ last[1].ret[1].file.ext =
               (IF PictureFrame(last[1].content)[1].mime = MimePng THEN PNG ELSE JPG)

\* the MIME string has the characters p, n, g in a row
MentionsPng(mime) ==
    \E i \in 1..(Len(mime) - 2) :
        mime[i] = "p" /\ mime[i + 1] = "n" /\ mime[i + 2] = "g"

\* C8 (amended): for an ID3 picture frame the cover file is .png exactly when
\* the declared MIME string contains "png" (in lower case), .jpg otherwise,
\* and no MIME string makes the extraction fail.
InvC8 ==
    PictureCall =>
        /\ last[1].ret # None
        /\ last[1].ret[1].file.ext =
               (IF MentionsPng(PictureFrame(last[1].content)[1].mime)
                THEN PNG ELSE JPG)

WitC8 ==
    /\ PictureCall
    /\ PictureFrame(last[1].content)[1].mime = MimeXPng
    /\ last[1].ret # None
    /\ last[1].ret[1].file.ext = PNG

\* the cover of a record is None or covers/<md5 of the file's path><kind>
KeyedByPath(rec) ==
    rec.cover # None =>
        /\ rec.cover[1].dir = COVERS_DIR
        /\ rec.cover[1].file.hash = Md5(FullPath(rec.name))
        /\ rec.cover[1].file.ext \in Kinds

\* C9: the reference of a file with artwork is covers/<key><extension> with the
\* key of the file's path, in every run, whatever the file holds, whatever the
\* cache holds and whatever the other files are; a file that has a cover in
\* two runs in a row has the same key in both.
InvC9 ==
    /\ \A i \in 1..Len(playlist_data) : KeyedByPath(playlist_data[i])
    /\ prev # None =>
         /\ \A i \in 1..Len(prev[1].records) : KeyedByPath(prev[1].records[i])
         /\ \A i \in 1..Len(playlist_data) :
              (playlist_data[i].cover # None /\ prev[1].records[i].cover # None)
                  => playlist_data[i].cover[1].file.hash
                         = prev[1].records[i].cover[1].file.hash

\* a file rewritten between two runs has the same reference in both
WitC9 ==
    /\ pc = "done"
    /\ prev # None
    /\ \E i \in 1..Len(playlist_data) :
         /\ Artwork(prev[1].disk[files[i]]) # None
         /\ Artwork(runDisk[files[i]]) # None
         /\ Artwork(prev[1].disk[files[i]]) # Artwork(runDisk[files[i]])
         /\ playlist_data[i].cover # None
         /\ playlist_data[i].cover = prev[1].records[i].cover

\* C10 (as claimed): a reference returned by extract_cover names a cover file
\* that exists and holds a whole image of that source path, and a call that
\* returns None leaves no new file in the covers folder.
CexC10 ==
    last # None =>
        /\ last[1].ret # None =>
             /\ Exists(covers, last[1].ret[1].file)
             /\ last[1].ret[1].file.hash = Md5(last[1].path)
             /\ covers[last[1].ret[1].file] \in WholeImages
        /\ last[1].ret = None => DOMAIN covers = DOMAIN coversBefore

\* C10, first half alone: a returned reference names a whole image
CexC10Returned ==
    (last # None /\ last[1].ret # None) =>
        /\ Exists(covers, last[1].ret[1].file)
        /\ covers[last[1].ret[1].file] \in WholeImages

====
